---- MODULE Spec2Model ----
(***************************************************************************)
(* Model of phobos/utils/editing.py: editing operations on a scene graph   *)
(* of objects with a parent reference, a phobostype tag, custom            *)
(* properties and a show_name flag, and on the named groups of the         *)
(* project.                                                                *)
(*                                                                         *)
(* Python strings are modelled as sequences of one-character strings, so   *)
(* that concatenation, startswith, replace, split and 'in' are computed.   *)
(***************************************************************************)
EXTENDS Naturals, Integers, Sequences, FiniteSets, TLC

VARIABLES
    parent,      \* obj.parent of every scene object (None for a root)
    phobostype,  \* obj.phobostype of every scene object
    props,       \* custom properties of every object: key -> value
    show_name,   \* obj.show_name of every scene object
    groups,      \* names of the groups in bpy.data.groups
    instances,   \* objects created by instantiateSubmodel
    calls        \* the calls made so far, each with the state it started in

vars == <<parent, phobostype, props, show_name, groups, instances, calls>>

\* ------------------------------------------------------------------------
\* Bounds
\* ------------------------------------------------------------------------
\* number of calls made in one behaviour of the tree specifications
MaxOps == 2

\* ------------------------------------------------------------------------
\* Scene objects
\* ------------------------------------------------------------------------
None == "None"

Objs == {"A", "B", "C", "D"}

\* the empty custom property mapping
NoProps == [k \in {} |-> 0]

\* ------------------------------------------------------------------------
\* Python string helpers (strings are sequences of characters)
\* ------------------------------------------------------------------------
startswith(s, p) ==
    /\ Len(p) <= Len(s)
    /\ SubSeq(s, 1, Len(p)) = p

\* ------------------------------------------------------------------------
\* Tree helpers
\* ------------------------------------------------------------------------
\* the proper ancestors of obj under the parent function par
RECURSIVE Ancestors(_, _)
Ancestors(par, obj) ==
    IF par[obj] = None THEN {} ELSE {par[obj]} \cup Ancestors(par, par[obj])

\* obj.children (and transitively): the proper descendants of obj
Descendants(par, obj) == {o \in Objs : obj \in Ancestors(par, o)}

\* the objects of the tree with root r
TreeOf(par, r) == {r} \cup Descendants(par, r)

\* all parent functions over Objs that are forests
IsForest(par) ==
    \A o \in Objs :
        LET RECURSIVE Up(_, _)
            Up(x, n) == IF x = None THEN TRUE
                        ELSE IF n = 0 THEN FALSE
                        ELSE Up(par[x], n - 1)
        IN Up(o, Cardinality(Objs))

Forests == {par \in [Objs -> Objs \cup {None}] : IsForest(par)}

\* sUtils.getRoot(obj): the object at the top of obj's parent chain
RECURSIVE getRoot(_, _)
getRoot(par, obj) ==
    IF par[obj] = None THEN obj ELSE getRoot(par, par[obj])

\* the host's parent_clear on the selected objects sel
parent_clear(par, sel) ==
    [o \in Objs |-> IF o \in sel THEN None ELSE par[o]]

\* the host's parent_set with active object p and selected object c: c
\* becomes a child of p (a call that would close a loop in the parents is
\* refused by the host: see parentSetLoops)
parent_set(par, p, c) == [par EXCEPT ![c] = p]

\* ------------------------------------------------------------------------
\* restructureKinematicTree
\* ------------------------------------------------------------------------
modelname == <<"m", "o", "d", "e", "l", "n", "a", "m", "e">>
version == <<"v", "e", "r", "s", "i", "o", "n">>

\* faulty variant: the ascent collects no object
gatherLinksNone(par, obj, root, links) == links

\* the while loop: ascends from obj to the child of root, collecting the
\* objects tagged 'link' on the way
RECURSIVE gatherLinks(_, _, _, _)
gatherLinks(par, obj, root, links) ==
    IF par[obj] # root
    THEN LET o == par[obj]
         IN gatherLinks(par, o, root,
                        IF phobostype[o] = "link" THEN Append(links, o) ELSE links)
    ELSE links

\* faulty variant: parent and child are swapped in the for loop
RECURSIVE reparentChainSwapped(_, _, _)
reparentChainSwapped(par, links, i) ==
    IF i >= Len(links)
    THEN par
    ELSE reparentChainSwapped(parent_set(par, links[i + 1], links[i]), links, i + 1)

\* the for loop: links[i] becomes the parent of links[i + 1]
RECURSIVE reparentChain(_, _, _)
reparentChain(par, links, i) ==
    IF i >= Len(links)
    THEN par
    ELSE reparentChain(parent_set(par, links[i], links[i + 1]), links, i + 1)

\* faulty variant: the key is copied to the link and left on the root
movePropertyKeep(prp, link, root, key) ==
    IF key \in DOMAIN prp[root]
    THEN [prp EXCEPT ![link] =
             [k \in DOMAIN prp[link] \cup {key} |->
                 IF k = key THEN prp[root][key] ELSE prp[link][k]]]
    ELSE prp

\* if key in root: link[key] = root[key]; del root[key]
moveProperty(prp, link, root, key) ==
    IF key \in DOMAIN prp[root]
    THEN LET v == prp[root][key]
             set == [prp EXCEPT ![link] =
                        [k \in DOMAIN prp[link] \cup {key} |->
                            IF k = key THEN v ELSE prp[link][k]]]
         IN [set EXCEPT ![root] =
                [k \in DOMAIN set[root] \ {key} |-> set[root][k]]]
    ELSE prp

\* the part after the early return: gathers the chain, unparents it,
\* re-parents it in reverse and moves the model information
restructureChain(st, link, root) ==
    LET links == Append(gatherLinks(st.parent, link, root, <<link>>), root)
        cleared == parent_clear(st.parent, {links[i] : i \in 1..Len(links)})
        par2 == reparentChain(cleared, links, 1)
        prp1 == moveProperty(st.props, link, root, modelname)
        prp2 == moveProperty(prp1, link, root, version)
    IN [parent |-> par2, props |-> prp2]

\* faulty variant: no early return for a link that is already root, whose model
\* information is then copied onto itself and deleted
restructureNoEarlyReturn(st, link, root0) ==
    LET root == IF root0 = None THEN getRoot(st.parent, link) ELSE root0
    IN IF st.parent[link] = None
       THEN [parent |-> st.parent,
             props |-> moveProperty(moveProperty(st.props, link, root, modelname),
                                    link, root, version)]
       ELSE restructureChain(st, link, root)

\* restructureKinematicTree(link, root) on the scene st = [parent, props];
\* root = None stands for the default argument
restructureKinematicTree(st, link, root0) ==
    LET root == IF root0 = None THEN getRoot(st.parent, link) ELSE root0
    IN IF st.parent[link] = None
       THEN st
       ELSE restructureChain(st, link, root)

Scene == [parent |-> parent, props |-> props]

\* ------------------------------------------------------------------------
\* Specification of the kinematic tree operations
\* ------------------------------------------------------------------------
\* custom properties at the start: the roots carry the keys of rootKeys,
\* the other objects those of childKeys, each with the object as its value
MetaPatterns ==
    { <<{}, {}>>, <<{modelname, version}, {}>>, <<{modelname}, {version}>> }

InitTree ==
    /\ parent \in Forests
    /\ phobostype \in [Objs -> {"link", "visual"}]
    /\ \E pat \in MetaPatterns :
          props = [o \in Objs |->
                      [k \in (IF parent[o] = None THEN pat[1] ELSE pat[2]) |-> o]]
    /\ show_name = [o \in Objs |-> TRUE]
    /\ groups = [n \in {} |-> NoProps]
    /\ instances = {}
    /\ calls = <<>>

Restructure(link) ==
    /\ Len(calls) < MaxOps
    /\ LET new == restructureKinematicTree(Scene, link, None)
       IN /\ parent' = new.parent
          /\ props' = new.props
    /\ calls' = Append(calls, [op |-> "restructureKinematicTree", link |-> link,
                               root |-> getRoot(parent, link),
                               before |-> Scene])
    /\ UNCHANGED <<phobostype, show_name, groups, instances>>

NextTree == \E link \in Objs : Restructure(link)

SpecTree == InitTree /\ [][NextTree]_vars

\* ------------------------------------------------------------------------
\* Claims on restructureKinematicTree
\* ------------------------------------------------------------------------
\* the scene after the i-th call
After(i) == IF i = Len(calls) THEN Scene ELSE calls[i + 1].before

\* the parent-child edges between two objects tagged 'link'
LinkEdges(par) ==
    {<<par[o], o>> : o \in {x \in Objs : /\ par[x] # None
                                         /\ phobostype[x] = "link"
                                         /\ phobostype[par[x]] = "link"}}

\* calls i and i + 1 re-root a tree at a non-root X and then at its old root
IsRoundTrip(i) ==
    /\ i + 1 <= Len(calls)
    /\ calls[i].before.parent[calls[i].link] # None
    /\ calls[i + 1].link = calls[i].root

\* the objects strictly between X and the root on X's parent chain
Between(par, x) == Ancestors(par, x) \ {getRoot(par, x)}

\* C1 (as stated): re-rooting at any non-root X and then at the original
\* root R leaves the set of parent-child edges between 'link' objects as it
\* was before the first call.
C1_RoundTripAny ==
    \A i \in 1..Len(calls) :
        IsRoundTrip(i) =>
            LinkEdges(After(i + 1).parent) = LinkEdges(calls[i].before.parent)

\* C1 (amended): the same, when every object strictly between X and R on
\* X's parent chain is tagged 'link'.
C1_RoundTripLinkChain ==
    \A i \in 1..Len(calls) :
        ( /\ IsRoundTrip(i)
          /\ \A o \in Between(calls[i].before.parent, calls[i].link) :
                phobostype[o] = "link" ) =>
            LinkEdges(After(i + 1).parent) = LinkEdges(calls[i].before.parent)

\* a round trip over a chain with an intermediate link, whose first call
\* changed the edges between links
C1_Witness ==
    \E i \in 1..Len(calls) :
        /\ IsRoundTrip(i)
        /\ Between(calls[i].before.parent, calls[i].link) # {}
        /\ \A o \in Between(calls[i].before.parent, calls[i].link) :
              phobostype[o] = "link"
        /\ LinkEdges(After(i).parent) # LinkEdges(calls[i].before.parent)
        /\ LinkEdges(After(i + 1).parent) = LinkEdges(calls[i].before.parent)

\* C2: restructureKinematicTree on a link without a parent changes no
\* object's parent and no custom property of any object.
C2_RootIsNoOp ==
    \A i \in 1..Len(calls) :
        calls[i].before.parent[calls[i].link] = None =>
            /\ After(i).parent = calls[i].before.parent
            /\ After(i).props = calls[i].before.props

\* a call on a root that carries 'modelname' and has children
C2_Witness ==
    \E i \in 1..Len(calls) :
        /\ calls[i].before.parent[calls[i].link] = None
        /\ modelname \in DOMAIN calls[i].before.props[calls[i].link]
        /\ Descendants(calls[i].before.parent, calls[i].link) # {}
        /\ After(i) = calls[i].before

\* C3: after restructureKinematicTree on a link with a parent, the link has
\* no parent and every object of its former tree is the link or one of its
\* descendants.
C3_LinkBecomesRoot ==
    \A i \in 1..Len(calls) :
        calls[i].before.parent[calls[i].link] # None =>
            /\ After(i).parent[calls[i].link] = None
            /\ TreeOf(calls[i].before.parent, calls[i].root)
                   \subseteq TreeOf(After(i).parent, calls[i].link)

\* a call on a link two levels below the root, below an object that is not
\* a link, in a tree of four objects
C3_Witness ==
    \E i \in 1..Len(calls) :
        LET b == calls[i].before.parent
            x == calls[i].link
        IN /\ b[x] # None
           /\ b[x] # calls[i].root
           /\ phobostype[b[x]] # "link"
           /\ TreeOf(b, calls[i].root) = Objs
           /\ After(i).parent[x] = None
           /\ TreeOf(After(i).parent, x) = Objs

\* ------------------------------------------------------------------------
\* getNearestCommonParent
\* ------------------------------------------------------------------------
\* longest list of objects passed to getNearestCommonParent
MaxObjs == 3

\* the inner while loop: ascends from o while it has a parent that is not
\* the candidate, adding the objects passed to inter_objects
RECURSIVE walkBranch(_, _, _, _)
walkBranch(par, o, cand, inter) ==
    IF par[o] # None /\ par[o] # cand
    THEN walkBranch(par, par[o], cand, inter \cup {par[o]})
    ELSE [o |-> o, inter |-> inter]

\* faulty variant: a branch that does not arrive at the candidate is not noticed
RECURSIVE checkRestNoBreak(_, _, _, _, _)
checkRestNoBreak(par, rest, i, cand, inter) ==
    IF i > Len(rest)
    THEN [in_all |-> TRUE, inter |-> inter]
    ELSE checkRestNoBreak(par, rest, i + 1, cand,
                          walkBranch(par, rest[i], cand, inter).inter)

\* the for loop over rest: in_all stays True unless a branch ends without
\* arriving at the candidate, which breaks the loop
RECURSIVE checkRest(_, _, _, _, _)
checkRest(par, rest, i, cand, inter) ==
    IF i > Len(rest)
    THEN [in_all |-> TRUE, inter |-> inter]
    ELSE LET w == walkBranch(par, rest[i], cand, inter)
         IN IF par[w.o] # cand
            THEN [in_all |-> FALSE, inter |-> w.inter]
            ELSE checkRest(par, rest, i + 1, cand, w.inter)

\* faulty variant: the candidate is moved up the anchor branch once only
climbAnchorOnce(par, rest, cand, in_all, inter) ==
    IF ~in_all /\ par[cand] # None
    THEN LET up == par[cand]
             r == checkRest(par, rest, 1, up, inter \cup {up})
         IN [parent |-> up, in_all |-> r.in_all, inter |-> r.inter]
    ELSE [parent |-> cand, in_all |-> in_all, inter |-> inter]

\* the outer while loop: moves the candidate up the anchor branch until it
\* is a parent of all of rest or the branch ends
RECURSIVE climbAnchor(_, _, _, _, _)
climbAnchor(par, rest, cand, in_all, inter) ==
    IF ~in_all /\ par[cand] # None
    THEN LET up == par[cand]
             r == checkRest(par, rest, 1, up, inter \cup {up})
         IN climbAnchor(par, rest, up, r.in_all, r.inter)
    ELSE [parent |-> cand, in_all |-> in_all, inter |-> inter]

\* getNearestCommonParent(objs) for a non-empty list objs; the returned list
\* of inter_objects is modelled as a set
getNearestCommonParent(par, objs) ==
    LET anchor == Head(objs)
        rest == Tail(objs)
        r == climbAnchor(par, rest, anchor, FALSE, {})
    IN IF ~r.in_all
       THEN [isNone |-> TRUE, parent |-> None, inter |-> {}]
       ELSE [isNone |-> FALSE, parent |-> r.parent, inter |-> r.inter \ {r.parent}]

\* the non-empty lists of at most n objects
ObjLists(n) == UNION {[1..k -> Objs] : k \in 1..n}

InitLCA ==
    /\ parent \in Forests
    /\ phobostype = [o \in Objs |-> "link"]
    /\ props = [o \in Objs |-> NoProps]
    /\ show_name = [o \in Objs |-> TRUE]
    /\ groups = [n \in {} |-> NoProps]
    /\ instances = {}
    /\ calls = <<>>

CallGetNearestCommonParent(objs) ==
    /\ calls = <<>>
    /\ calls' = <<[op |-> "getNearestCommonParent", objs |-> objs,
                   ret |-> getNearestCommonParent(parent, objs)]>>
    /\ UNCHANGED <<parent, phobostype, props, show_name, groups, instances>>

NextLCA == \E objs \in ObjLists(MaxObjs) : CallGetNearestCommonParent(objs)

SpecLCA == InitLCA /\ [][NextLCA]_vars

\* ------------------------------------------------------------------------
\* Claims on getNearestCommonParent
\* ------------------------------------------------------------------------
\* the objects that are a proper ancestor of every object of the list
CommonAncestors(par, objs) ==
    {p \in Objs : \A i \in 1..Len(objs) : p \in Ancestors(par, objs[i])}

\* all objects of the list lie in one tree
InOneTree(par, objs) ==
    \A i \in 1..Len(objs) : getRoot(par, objs[i]) = getRoot(par, objs[1])

\* C4: when getNearestCommonParent returns a pair, its first element is an
\* ancestor of every object of the list and none of its descendants is; two
\* children of one object yield that object.
C4_LowestCommonParent ==
    \A i \in 1..Len(calls) :
        LET objs == calls[i].objs
            ret == calls[i].ret
        IN /\ ~ret.isNone =>
                /\ ret.parent \in CommonAncestors(parent, objs)
                /\ Descendants(parent, ret.parent)
                       \cap CommonAncestors(parent, objs) = {}
           /\ ( /\ Len(objs) = 2
                /\ objs[1] # objs[2]
                /\ parent[objs[1]] # None
                /\ parent[objs[1]] = parent[objs[2]] ) =>
                    /\ ~ret.isNone
                    /\ ret.parent = parent[objs[1]]

\* a pair returned for objects at different depths that have more than one
\* common ancestor
C4_Witness ==
    \E i \in 1..Len(calls) :
        LET objs == calls[i].objs
            ret == calls[i].ret
        IN /\ ~ret.isNone
           /\ Cardinality(CommonAncestors(parent, objs)) > 1
           /\ \E j, k \in 1..Len(objs) : objs[j] \in Ancestors(parent, objs[k])
           /\ ret.parent \in CommonAncestors(parent, objs)

\* C5 (as stated): None is returned exactly when the objects do not all lie
\* in one tree.
C5_NoneIffNotInOneTree ==
    \A i \in 1..Len(calls) :
        calls[i].ret.isNone <=> ~InOneTree(parent, calls[i].objs)

\* C5 (amended): None is returned exactly when the objects do not all lie
\* in one tree or one of them is the root of the tree.
C5_NoneIffNoCommonParent ==
    \A i \in 1..Len(calls) :
        LET objs == calls[i].objs
        IN calls[i].ret.isNone <=>
              \/ ~InOneTree(parent, objs)
              \/ \E j \in 1..Len(objs) : parent[objs[j]] = None

\* None returned for two objects of one tree, one of them its root
C5_Witness ==
    \E i \in 1..Len(calls) :
        LET objs == calls[i].objs
        IN /\ calls[i].ret.isNone
           /\ Len(objs) > 1
           /\ InOneTree(parent, objs)
           /\ \E j \in 1..Len(objs) : parent[objs[j]] = None
           /\ \E j \in 1..Len(objs) : parent[objs[j]] # None

\* ------------------------------------------------------------------------
\* More Python string helpers
\* ------------------------------------------------------------------------
\* str.find from position i: the first index of the character ch, 0 if none
RECURSIVE find(_, _, _)
find(s, ch, i) ==
    IF i > Len(s) THEN 0
    ELSE IF s[i] = ch THEN i
    ELSE find(s, ch, i + 1)

\* sub in s
contains(s, sub) ==
    \E i \in 1..(Len(s) - Len(sub) + 1) : SubSeq(s, i, i + Len(sub) - 1) = sub

\* s.split(ch): the list of the parts of s between the characters ch
RECURSIVE split(_, _)
split(s, ch) ==
    LET i == find(s, ch, 1)
    IN IF i = 0
       THEN <<s>>
       ELSE <<SubSeq(s, 1, i - 1)>> \o split(SubSeq(s, i + 1, Len(s)), ch)

\* ------------------------------------------------------------------------
\* Submodel groups: removeSubmodel and instantiateSubmodel
\* ------------------------------------------------------------------------
colon == <<":">>
slash == <<"/">>
interfacesColon == <<"i", "n", "t", "e", "r", "f", "a", "c", "e", "s", ":">>
interfacesType == <<"i", "n", "t", "e", "r", "f", "a", "c", "e", "s">>
submodeltypeKey == <<"s", "u", "b", "m", "o", "d", "e", "l", "t", "y", "p", "e">>
submodelnameKey == <<"s", "u", "b", "m", "o", "d", "e", "l", "n", "a", "m", "e">>

\* 'submodeltype:submodelname[/version]'
submodelGroupName(submodelname, submodeltype, ver) ==
    submodeltype \o colon \o submodelname
        \o (IF ver # <<>> THEN slash \o ver ELSE <<>>)

\* 'interfaces:submodelname[/version]'
interfaceGroupName(submodelname, ver) ==
    interfacesColon \o submodelname
        \o (IF ver # <<>> THEN slash \o ver ELSE <<>>)

\* bpy.data.groups.remove(bpy.data.groups[name])
removeGroup(grps, name) == [n \in DOMAIN grps \ {name} |-> grps[n]]

\* removeSubmodel(submodelname, submodeltype, version, interfaces) on the
\* groups grps: the groups left and the value returned
removeSubmodel(grps, submodelname, submodeltype, ver, interfaces) ==
    LET submodelgroupname == submodelGroupName(submodelname, submodeltype, ver)
        found == submodelgroupname \in DOMAIN grps
        grps1 == IF found THEN removeGroup(grps, submodelgroupname) ELSE grps
        interfacegroupname == interfaceGroupName(submodelname, ver)
    IN IF found /\ ~interfaces
       THEN [groups |-> grps1, ret |-> TRUE]
       ELSE IF interfaces /\ interfacegroupname \in DOMAIN grps1
            THEN [groups |-> removeGroup(grps1, interfacegroupname), ret |-> TRUE]
            ELSE [groups |-> grps1, ret |-> FALSE]

\* the groups the for loop of instantiateSubmodel can leave in 'submodel'
submodelMatches(grps, submodelname) ==
    {n \in DOMAIN grps : contains(n, colon) /\ submodelname = n}

\* the groups whose name starts with 'interfaces:'
interfaceNamed(grps) == {n \in DOMAIN grps : startswith(n, interfacesColon)}

\* submodelname.split(':')[1] raises IndexError without a ':' in the name;
\* it is evaluated for the groups whose name starts with 'interfaces:'
splitRaises(grps, submodelname) ==
    /\ interfaceNamed(grps) # {}
    /\ Len(split(submodelname, ":")) < 2

\* the groups the for loop can leave in 'interfaces'
interfaceMatches(grps, submodelname) ==
    {n \in interfaceNamed(grps) : contains(n, split(submodelname, ":")[2])}

\* the object instantiateSubmodel creates from the group 'submodel', with
\* the interfaces of the group 'interfaces' (None without one)
submodelInstance(grps, submodel, interfaces, submodelname, instancename) ==
    LET own == (submodeltypeKey :> split(submodel, ":")[1])
                   @@ (submodelnameKey :> submodelname)
    IN [name |-> instancename,
        phobostype |-> "submodel",
        props |-> grps[submodel] @@ own,
        interfaces |-> interfaces]

\* instantiateSubmodel(submodelname, instancename) with the for loop having
\* left 'submodel' and 'interfaces' (None when no group matched): the
\* exception raised, the levels logged and the object returned
instantiateSubmodel(grps, submodel, interfaces, submodelname, instancename) ==
    LET logged == (IF submodel = None THEN <<"ERROR">> ELSE <<>>)
                      \o (IF interfaces = None THEN <<"INFO">> ELSE <<>>)
    IN IF submodel = None
       THEN \* bpy.ops.object.group_instance_add(group=submodel.name)
            [raised |-> "AttributeError", logged |-> logged, created |-> {}]
       ELSE [raised |-> None, logged |-> logged,
             created |-> {submodelInstance(grps, submodel, interfaces,
                                           submodelname, instancename)}]

\* the group definitions defineSubmodel leaves behind, by name
SubmodelNames == { <<"a">>, <<"b">> }
SubmodelTypes == { <<"m">> }
Versions == { <<>>, <<"1">> }

GroupProps(submodeltype, ver) ==
    (submodeltypeKey :> submodeltype) @@ (version :> ver)

DefinedGroups ==
    { [name |-> submodelGroupName(n, t, v), props |-> GroupProps(t, v)] :
          n \in SubmodelNames, t \in SubmodelTypes, v \in Versions }
    \cup
    { [name |-> interfaceGroupName(n, v),
       props |-> (submodeltypeKey :> interfacesType)] :
          n \in SubmodelNames, v \in Versions }

InitGroups ==
    /\ parent = [o \in Objs |-> None]
    /\ phobostype = [o \in Objs |-> "link"]
    /\ props = [o \in Objs |-> NoProps]
    /\ show_name = [o \in Objs |-> TRUE]
    /\ \E gs \in SUBSET DefinedGroups :
          groups = [n \in {g.name : g \in gs} |->
                       (CHOOSE g \in gs : g.name = n).props]
    /\ instances = {}
    /\ calls = <<>>

RemoveSubmodel(submodelname, submodeltype, ver, interfaces) ==
    /\ calls = <<>>
    /\ LET r == removeSubmodel(groups, submodelname, submodeltype, ver, interfaces)
       IN /\ groups' = r.groups
          /\ calls' = <<[op |-> "removeSubmodel",
                         submodelname |-> submodelname,
                         submodeltype |-> submodeltype,
                         version |-> ver,
                         interfaces |-> interfaces,
                         ret |-> r.ret,
                         before |-> groups]>>
    /\ UNCHANGED <<parent, phobostype, props, show_name, instances>>

InstantiateSubmodel(submodelname, instancename) ==
    /\ calls = <<>>
    /\ IF splitRaises(groups, submodelname)
       THEN /\ calls' = <<[op |-> "instantiateSubmodel",
                           submodelname |-> submodelname,
                           raised |-> "IndexError", logged |-> <<>>,
                           before |-> groups]>>
            /\ UNCHANGED instances
       ELSE \E submodel \in (IF submodelMatches(groups, submodelname) = {}
                             THEN {None}
                             ELSE submodelMatches(groups, submodelname)),
               interfaces \in (IF interfaceMatches(groups, submodelname) = {}
                               THEN {None}
                               ELSE interfaceMatches(groups, submodelname)) :
               LET r == instantiateSubmodel(groups, submodel, interfaces,
                                            submodelname, instancename)
               IN /\ instances' = instances \cup r.created
                  /\ calls' = <<[op |-> "instantiateSubmodel",
                                 submodelname |-> submodelname,
                                 raised |-> r.raised, logged |-> r.logged,
                                 before |-> groups]>>
    /\ UNCHANGED <<parent, phobostype, props, show_name, groups>>

\* the names instantiateSubmodel is called with
InstantiateNames ==
    { submodelGroupName(n, t, v) :
          n \in SubmodelNames, t \in SubmodelTypes, v \in Versions }
    \cup SubmodelNames

NextGroups ==
    \/ \E n \in SubmodelNames, t \in SubmodelTypes, v \in Versions,
          i \in BOOLEAN : RemoveSubmodel(n, t, v, i)
    \/ \E n \in InstantiateNames : InstantiateSubmodel(n, <<"x">>)

SpecGroups == InitGroups /\ [][NextGroups]_vars

\* ------------------------------------------------------------------------
\* Claims on removeSubmodel and instantiateSubmodel
\* ------------------------------------------------------------------------
\* C6: removeSubmodel returns True if and only if the call removed at least
\* one group: False when neither the submodel group nor (with
\* interfaces=True) the interface group exists, True when an existing
\* submodel group without an interface group is removed, which then no
\* longer exists.
C6_TrueIffRemoved ==
    \A i \in 1..Len(calls) :
        calls[i].op = "removeSubmodel" =>
            LET c == calls[i]
                sub == submodelGroupName(c.submodelname, c.submodeltype, c.version)
                ifc == interfaceGroupName(c.submodelname, c.version)
            IN /\ c.ret <=> (DOMAIN groups # DOMAIN c.before)
               /\ ( /\ sub \notin DOMAIN c.before
                    /\ ~(c.interfaces /\ ifc \in DOMAIN c.before) ) => ~c.ret
               /\ ( /\ sub \in DOMAIN c.before
                    /\ ifc \notin DOMAIN c.before ) =>
                        /\ c.ret
                        /\ sub \notin DOMAIN groups

\* C9: instantiateSubmodel called when no group has exactly the name
\* submodelname logs an error and raises no exception.
C9_MissingSubmodelIsLogged ==
    \A i \in 1..Len(calls) :
        ( /\ calls[i].op = "instantiateSubmodel"
          /\ calls[i].submodelname \notin DOMAIN calls[i].before ) =>
            /\ "ERROR" \in {calls[i].logged[j] : j \in 1..Len(calls[i].logged)}
            /\ calls[i].raised = None

\* ------------------------------------------------------------------------
\* removeProperties and getPropertiesSubset
\* ------------------------------------------------------------------------
star == "*"

\* the for loop over obj.keys() of the wildcard branch: deletes the keys
\* that start with the prefix
deleteStartingWith(d, prefix) ==
    [k \in {x \in DOMAIN d : ~startswith(x, prefix)} |-> d[k]]

\* the for loop over props on the custom properties d of one object
RECURSIVE removeListed(_, _, _)
removeListed(d, plist, i) ==
    IF i > Len(plist)
    THEN d
    ELSE LET prop == plist[i]
             d1 == IF prop \in DOMAIN d
                   THEN [k \in DOMAIN d \ {prop} |-> d[k]]
                   ELSE IF prop[Len(prop)] = star
                        THEN deleteStartingWith(d, SubSeq(prop, 1, Len(prop) - 1))
                        ELSE d
         IN removeListed(d1, plist, i + 1)

\* obj.children
children(par, obj) == {o \in Objs : par[o] = obj}

\* removeProperties(obj, props, recursive) on the custom properties prp of
\* all objects; todo holds the objects still to be visited
RECURSIVE removeProperties(_, _, _, _, _)
removeProperties(par, prp, todo, plist, recursive) ==
    IF todo = {}
    THEN prp
    ELSE LET obj == CHOOSE o \in todo : TRUE
             prp1 == [prp EXCEPT ![obj] = removeListed(prp[obj], plist, 1)]
             prp2 == IF recursive
                     THEN removeProperties(par, prp1, children(par, obj),
                                           plist, recursive)
                     ELSE prp1
         IN removeProperties(par, prp2, todo \ {obj}, plist, recursive)

\* key.replace(old, ''): key without any occurrence of old, found from the
\* left without overlap
RECURSIVE replaceWithEmpty(_, _)
replaceWithEmpty(s, old) ==
    IF Len(s) < Len(old) THEN s
    ELSE IF startswith(s, old)
         THEN replaceWithEmpty(SubSeq(s, Len(old) + 1, Len(s)), old)
         ELSE <<Head(s)>> \o replaceWithEmpty(Tail(s), old)

sensor == <<"s", "e", "n", "s", "o", "r">>
visual == <<"v", "i", "s", "u", "a", "l">>

\* the characters of the phobostype t
typeName(t) ==
    CASE t = "visual" -> visual
      [] t = "sensor" -> sensor

\* the dict comprehension over obj.items() taken in the order given: a later
\* item replaces an earlier one with the same new key
RECURSIVE filterItems(_, _, _, _, _)
filterItems(d, order, i, prefix, acc) ==
    IF i > Len(order)
    THEN acc
    ELSE LET key == order[i]
         IN filterItems(d, order, i + 1, prefix,
               IF startswith(key, prefix)
               THEN (replaceWithEmpty(key, prefix) :> d[key]) @@ acc
               ELSE acc)

\* getPropertiesSubset(obj, category), category = None or empty standing for
\* the omitted argument; order is the order of obj.items()
getPropertiesSubset(prp, obj, category, order) ==
    LET cat == IF category = None \/ category = <<>>
               THEN typeName(phobostype[obj]) ELSE category
    IN filterItems(prp[obj], order, 1, cat \o slash, NoProps)

\* the orders in which the keys of d can be listed
Orders(d) ==
    {s \in [1..Cardinality(DOMAIN d) -> DOMAIN d] :
        \A i, j \in DOMAIN s : i # j => s[i] # s[j]}

\* the custom property keys of the scene
PropKeys ==
    { sensor \o <<star>>,
      sensor \o <<"/", "a">>,
      visual \o <<"/", "a">>,
      visual \o slash \o visual \o <<"/", "a">> }

\* the lists of property names removeProperties is called with
PropLists ==
    { <<sensor \o <<star>>>>,
      <<visual \o <<star>>>>,
      <<visual \o slash \o visual \o <<star>>>>,
      <<<<star>>>>,
      <<visual \o <<"/", "a">>>>,
      <<sensor \o <<star>>, sensor \o <<star>>>> }

Categories == {None, sensor, visual}

InitProps ==
    /\ parent \in Forests
    /\ phobostype = [o \in Objs |-> IF o \in {"A", "B"} THEN "visual" ELSE "sensor"]
    /\ \E ks \in SUBSET PropKeys, full \in BOOLEAN :
          props = [o \in Objs |->
                      [k \in (IF o \in {"A", "C"} THEN ks
                              ELSE IF full THEN PropKeys ELSE {}) |-> <<o, k>>]]
    /\ show_name = [o \in Objs |-> TRUE]
    /\ groups = [n \in {} |-> NoProps]
    /\ instances = {}
    /\ calls = <<>>

RemoveProperties(obj, plist, recursive) ==
    /\ calls = <<>>
    /\ props' = removeProperties(parent, props, {obj}, plist, recursive)
    /\ calls' = <<[op |-> "removeProperties", obj |-> obj, props |-> plist,
                   recursive |-> recursive, before |-> props]>>
    /\ UNCHANGED <<parent, phobostype, show_name, groups, instances>>

GetPropertiesSubset(obj, category) ==
    /\ calls = <<>>
    /\ \E order \in Orders(props[obj]) :
          calls' = <<[op |-> "getPropertiesSubset", obj |-> obj,
                      category |-> category,
                      ret |-> getPropertiesSubset(props, obj, category, order),
                      before |-> props]>>
    /\ UNCHANGED <<parent, phobostype, props, show_name, groups, instances>>

NextProps ==
    \/ \E obj \in Objs, plist \in PropLists, recursive \in BOOLEAN :
          RemoveProperties(obj, plist, recursive)
    \/ \E obj \in Objs, category \in Categories :
          GetPropertiesSubset(obj, category)

SpecProps == InitProps /\ [][NextProps]_vars

\* ------------------------------------------------------------------------
\* Claims on removeProperties and getPropertiesSubset
\* ------------------------------------------------------------------------
\* the custom properties d without the keys that start with prefix
WithoutPrefix(d, prefix) ==
    [k \in {x \in DOMAIN d : ~startswith(x, prefix)} |-> d[k]]

\* C7: removeProperties(obj, [p + '*']) deletes every key of obj that
\* starts with p and leaves its other keys with their values; with
\* recursive=True the same holds for every descendant of obj, with
\* recursive=False the descendants are unchanged.
C7_WildcardRemovesPrefix ==
    \A i \in 1..Len(calls) :
        ( /\ calls[i].op = "removeProperties"
          /\ Len(calls[i].props) = 1
          /\ calls[i].props[1][Len(calls[i].props[1])] = star ) =>
            LET c == calls[i]
                p == SubSeq(c.props[1], 1, Len(c.props[1]) - 1)
            IN /\ props[c.obj] = WithoutPrefix(c.before[c.obj], p)
               /\ \A o \in Descendants(parent, c.obj) :
                     props[o] = IF c.recursive
                                THEN WithoutPrefix(c.before[o], p)
                                ELSE c.before[o]

\* C8: getPropertiesSubset(obj, c) returns exactly one entry for each key
\* of obj that starts with c + '/', keyed by the key without its leading
\* c + '/' and with the same value, and no other entry; obj is unchanged;
\* an omitted category is obj.phobostype.
C8_SubsetStripsPrefix ==
    \A i \in 1..Len(calls) :
        calls[i].op = "getPropertiesSubset" =>
            LET c == calls[i]
                cat == IF c.category = None
                       THEN typeName(phobostype[c.obj]) ELSE c.category
                prefix == cat \o slash
                d == c.before[c.obj]
                matching == {k \in DOMAIN d : startswith(k, prefix)}
                stripped(k) == SubSeq(k, Len(prefix) + 1, Len(k))
            IN /\ DOMAIN c.ret = {stripped(k) : k \in matching}
               /\ \A k \in matching : c.ret[stripped(k)] = d[k]
               /\ props = c.before

\* ------------------------------------------------------------------------
\* connectInterfaces
\* ------------------------------------------------------------------------
\* the host refuses parent_set(p, c) with a loop in the parents and the
\* operator call raises RuntimeError
parentSetLoops(par, p, c) == p = c \/ c \in Ancestors(par, p)

\* faulty variant: the tree of the child interface is never restructured
makeParentRootNever(st, childinterface) == st

\* the first step: if the parent of the child interface is not the root of
\* its tree, the tree is restructured to make it the root
makeParentRoot(st, childinterface) ==
    LET root == getRoot(st.parent, childinterface)
        par == st.parent[childinterface]
    IN IF root # par
       THEN restructureKinematicTree(st, par, None)
       ELSE st

\* connectInterfaces(parentinterface, childinterface) on the scene
\* st = [parent, props, show_name] (transforms are not part of the state):
\* the scene left, the exception raised and the scene after the first step
connectInterfaces(st, parentinterface, childinterface) ==
    IF st.parent[childinterface] = None
    THEN \* restructureKinematicTree(None)
         [parent |-> st.parent, props |-> st.props, show_name |-> st.show_name,
          raised |-> "AttributeError", mid |-> st.parent]
    ELSE LET s1 == makeParentRoot([parent |-> st.parent, props |-> st.props],
                                  childinterface)
             childsubmodel == s1.parent[childinterface]
             par1 == parent_clear(s1.parent, {childinterface})
             loops1 == parentSetLoops(par1, childinterface, childsubmodel)
             par2 == parent_set(par1, childinterface, childsubmodel)
             loops2 == parentSetLoops(par2, parentinterface, childinterface)
             par3 == parent_set(par2, parentinterface, childinterface)
         IN IF loops1
            THEN [parent |-> par1, props |-> s1.props, show_name |-> st.show_name,
                  raised |-> "RuntimeError", mid |-> s1.parent]
            ELSE IF loops2
            THEN [parent |-> par2, props |-> s1.props, show_name |-> st.show_name,
                  raised |-> "RuntimeError", mid |-> s1.parent]
            ELSE [parent |-> par3, props |-> s1.props,
                  show_name |-> [st.show_name EXCEPT ![parentinterface] = FALSE,
                                                     ![childinterface] = FALSE],
                  raised |-> None, mid |-> s1.parent]

IfaceScene == [parent |-> parent, props |-> props, show_name |-> show_name]

\* two interfaces and two objects that are submodels or links
InitIface ==
    /\ parent \in Forests
    /\ \E tc, td \in {"submodel", "link"} :
          phobostype = [o \in Objs |-> CASE o = "C" -> tc
                                         [] o = "D" -> td
                                         [] OTHER -> "interface"]
    /\ props = [o \in Objs |-> [k \in (IF parent[o] = None THEN {modelname} ELSE {})
                                   |-> o]]
    /\ show_name = [o \in Objs |-> TRUE]
    /\ groups = [n \in {} |-> NoProps]
    /\ instances = {}
    /\ calls = <<>>

ConnectInterfaces(parentinterface, childinterface) ==
    /\ Len(calls) < MaxOps
    /\ phobostype[parentinterface] = "interface"
    /\ phobostype[childinterface] = "interface"
    /\ parentinterface # childinterface
    /\ LET r == connectInterfaces(IfaceScene, parentinterface, childinterface)
       IN /\ parent' = r.parent
          /\ props' = r.props
          /\ show_name' = r.show_name
          /\ calls' = Append(calls, [op |-> "connectInterfaces",
                                     parentinterface |-> parentinterface,
                                     childinterface |-> childinterface,
                                     raised |-> r.raised,
                                     mid |-> r.mid,
                                     before |-> IfaceScene])
    /\ UNCHANGED <<phobostype, groups, instances>>

RestructureIface(link) ==
    /\ Len(calls) < MaxOps
    /\ LET new == restructureKinematicTree(Scene, link, None)
       IN /\ parent' = new.parent
          /\ props' = new.props
    /\ calls' = Append(calls, [op |-> "restructureKinematicTree", link |-> link,
                               root |-> getRoot(parent, link),
                               before |-> IfaceScene])
    /\ UNCHANGED <<phobostype, show_name, groups, instances>>

NextIface ==
    \/ \E p, c \in Objs : ConnectInterfaces(p, c)
    \/ \E link \in Objs : RestructureIface(link)

SpecIface == InitIface /\ [][NextIface]_vars

\* ------------------------------------------------------------------------
\* Claims on connectInterfaces
\* ------------------------------------------------------------------------
\* the scene after the i-th call of the interface specification
AfterIface(i) == IF i = Len(calls) THEN IfaceScene ELSE calls[i + 1].before

\* call i connects a child interface that is the child of a submodel object
\* in a tree that does not contain the parent interface
IsConnectAcrossTrees(i) ==
    /\ calls[i].op = "connectInterfaces"
    /\ LET b == calls[i].before.parent
           c == calls[i].childinterface
       IN /\ b[c] # None
          /\ phobostype[b[c]] = "submodel"
          /\ calls[i].parentinterface \notin TreeOf(b, getRoot(b, c))

\* C10: after connectInterfaces(parentinterface, childinterface) with the
\* child interface a child of a submodel S in a tree without the parent
\* interface: S was first made the root of its tree, the parent of the child
\* interface is the parent interface, the parent of S is the child
\* interface, every object of S's former tree is a descendant of the parent
\* interface, and show_name is False on both interfaces.
C10_ConnectAttachesTree ==
    \A i \in 1..Len(calls) :
        IsConnectAcrossTrees(i) =>
            LET b == calls[i].before.parent
                p == calls[i].parentinterface
                c == calls[i].childinterface
                S == b[c]
                tree == TreeOf(b, getRoot(b, c))
                a == AfterIface(i)
            IN /\ calls[i].mid[S] = None
               /\ TreeOf(calls[i].mid, S) = tree
               /\ a.parent[c] = p
               /\ a.parent[S] = c
               /\ tree \subseteq Descendants(a.parent, p)
               /\ ~a.show_name[p]
               /\ ~a.show_name[c]

\* a connection whose submodel was not the root of its tree
C10_Witness ==
    \E i \in 1..Len(calls) :
        /\ IsConnectAcrossTrees(i)
        /\ LET b == calls[i].before.parent
               c == calls[i].childinterface
           IN /\ b[b[c]] # None
              /\ AfterIface(i).parent[b[c]] = c
              /\ AfterIface(i).parent[c] = calls[i].parentinterface
              /\ calls[i].raised = None

\* ------------------------------------------------------------------------
\* disconnectInterfaces
\* ------------------------------------------------------------------------
\* the objects in the order of bpy.data.objects, which obj.children follows
ObjNames == <<"A", "B", "C", "D">>

nameIndex(o) == CHOOSE i \in 1..Len(ObjNames) : ObjNames[i] = o

\* the first object of the non-empty set objs in that order
firstOf(objs) ==
    CHOOSE o \in objs : \A x \in objs : nameIndex(o) <= nameIndex(x)

\* faulty variant: the first child is taken whatever its phobostype
newRootFirstChild(par, childinterface) == firstOf(children(par, childinterface))

\* the for/else over childinterface.children: the first child tagged
\* 'submodel', otherwise the first child
newRoot(par, childinterface) ==
    LET kids == children(par, childinterface)
        submodels == {k \in kids : phobostype[k] = "submodel"}
    IN IF submodels # {} THEN firstOf(submodels) ELSE firstOf(kids)

\* faulty variant: the new root is not unparented before the child interface is
\* parented to it
reattachNoClear(par, root, childinterface) ==
    parent_set(par, root, childinterface)

\* the new root is unparented and the child interface is parented to it
reattach(par, root, childinterface) ==
    parent_set(parent_clear(par, {root}), root, childinterface)

\* disconnectInterfaces(parentinterface, childinterface) on the scene
\* st = [parent, props, show_name] (transforms are not part of the state):
\* the scene left and the exception raised
disconnectInterfaces(st, parentinterface, childinterface) ==
    LET par1 == parent_clear(st.parent, {childinterface})
    IN IF children(par1, childinterface) = {}
       THEN \* root is not bound
            [parent |-> par1, props |-> st.props, show_name |-> st.show_name,
             raised |-> "UnboundLocalError"]
       ELSE [parent |-> reattach(par1, newRoot(par1, childinterface),
                                 childinterface),
             props |-> st.props,
             show_name |-> [st.show_name EXCEPT ![parentinterface] = TRUE,
                                                ![childinterface] = TRUE],
             raised |-> None]

DisconnectInterfaces(parentinterface, childinterface) ==
    /\ Len(calls) < MaxOps
    /\ phobostype[parentinterface] = "interface"
    /\ phobostype[childinterface] = "interface"
    /\ parentinterface # childinterface
    /\ LET r == disconnectInterfaces(IfaceScene, parentinterface, childinterface)
       IN /\ parent' = r.parent
          /\ props' = r.props
          /\ show_name' = r.show_name
          /\ calls' = Append(calls, [op |-> "disconnectInterfaces",
                                     parentinterface |-> parentinterface,
                                     childinterface |-> childinterface,
                                     raised |-> r.raised,
                                     before |-> IfaceScene])
    /\ UNCHANGED <<phobostype, groups, instances>>

NextEdit ==
    \/ \E p, c \in Objs : ConnectInterfaces(p, c)
    \/ \E p, c \in Objs : DisconnectInterfaces(p, c)
    \/ \E link \in Objs : RestructureIface(link)

SpecEdit == InitIface /\ [][NextEdit]_vars

\* ------------------------------------------------------------------------
\* Claims on disconnectInterfaces
\* ------------------------------------------------------------------------
\* calls i and i + 1 connect two interfaces, without an exception, and
\* disconnect them again
IsConnectDisconnect(i) ==
    /\ i + 1 <= Len(calls)
    /\ calls[i].op = "connectInterfaces"
    /\ calls[i].raised = None
    /\ calls[i + 1].op = "disconnectInterfaces"
    /\ calls[i + 1].parentinterface = calls[i].parentinterface
    /\ calls[i + 1].childinterface = calls[i].childinterface

\* C11: after connectInterfaces(p, c) followed by disconnectInterfaces(p, c),
\* c is no child or descendant of p, c is a child of the object it was
\* reattached to, which is the child of c tagged 'submodel' if c had one and
\* otherwise c's first child, that object has no parent, and show_name is
\* True on p and c.
C11_DisconnectReversesConnect ==
    \A i \in 1..Len(calls) :
        IsConnectDisconnect(i) =>
            LET p == calls[i].parentinterface
                c == calls[i].childinterface
                connected == calls[i + 1].before.parent
                kids == children(connected, c)
                a == AfterIface(i + 1)
                root == a.parent[c]
            IN /\ c \notin Descendants(a.parent, p)
               /\ root \in kids
               /\ (\E k \in kids : phobostype[k] = "submodel")
                      => phobostype[root] = "submodel"
               /\ (\A k \in kids : phobostype[k] # "submodel")
                      => root = firstOf(kids)
               /\ a.parent[root] = None
               /\ a.show_name[p]
               /\ a.show_name[c]

\* a disconnection after a connection, of a child interface whose first
\* child is no submodel and which has a submodel child
C11_Witness ==
    \E i \in 1..Len(calls) :
        /\ IsConnectDisconnect(i)
        /\ LET c == calls[i].childinterface
               kids == children(calls[i + 1].before.parent, c)
               a == AfterIface(i + 1)
           IN /\ phobostype[firstOf(kids)] # "submodel"
              /\ phobostype[a.parent[c]] = "submodel"
              /\ a.parent[a.parent[c]] = None
              /\ a.show_name[c]

\* ------------------------------------------------------------------------
\* Claim on the model information moved by restructureKinematicTree
\* ------------------------------------------------------------------------
\* C12: restructureKinematicTree on a link with a parent moves 'modelname'
\* and 'version' from the old root to the link: a key the old root carried
\* is on the link with the old root's value and no longer on the old root;
\* a key the old root did not carry is unchanged on the link.
C12_ModelInformationMoves ==
    \A i \in 1..Len(calls) :
        calls[i].before.parent[calls[i].link] # None =>
            LET link == calls[i].link
                root == calls[i].root
                b == calls[i].before.props
                a == After(i).props
            IN \A key \in {modelname, version} :
                  IF key \in DOMAIN b[root]
                  THEN /\ key \in DOMAIN a[link]
                       /\ a[link][key] = b[root][key]
                       /\ key \notin DOMAIN a[root]
                  ELSE /\ (key \in DOMAIN a[link]) <=> (key \in DOMAIN b[link])
                       /\ key \in DOMAIN b[link] => a[link][key] = b[link][key]

\* a call that moved 'modelname' from the root to a link that carried its
\* own 'version', which the root did not carry
C12_Witness ==
    \E i \in 1..Len(calls) :
        LET link == calls[i].link
            root == calls[i].root
            b == calls[i].before.props
            a == After(i).props
        IN /\ calls[i].before.parent[link] # None
           /\ modelname \in DOMAIN b[root]
           /\ version \notin DOMAIN b[root]
           /\ version \in DOMAIN b[link]
           /\ a[link][modelname] = b[root][modelname]
           /\ a[link][version] = b[link][version]
           /\ modelname \notin DOMAIN a[root]

\* ------------------------------------------------------------------------
\* Claim on the parent relation as a forest
\* ------------------------------------------------------------------------
\* call i is a restructureKinematicTree call, a connectInterfaces call
\* between interfaces of different trees, or a disconnectInterfaces call on
\* a child interface that is a child of the parent interface
IsForestCall(i) ==
    LET b == calls[i].before.parent
    IN \/ calls[i].op = "restructureKinematicTree"
       \/ /\ calls[i].op = "connectInterfaces"
          /\ getRoot(b, calls[i].parentinterface)
                 # getRoot(b, calls[i].childinterface)
       \/ /\ calls[i].op = "disconnectInterfaces"
          /\ b[calls[i].childinterface] = calls[i].parentinterface

\* C13: restructureKinematicTree calls, connectInterfaces calls between
\* interfaces of different trees and disconnectInterfaces calls on connected
\* interfaces leave the parent relation a forest over the same objects.
C13_ForestPreserved ==
    \A i \in 1..Len(calls) :
        ( /\ IsForestCall(i)
          /\ IsForest(calls[i].before.parent) ) =>
            /\ DOMAIN AfterIface(i).parent = DOMAIN calls[i].before.parent
            /\ IsForest(AfterIface(i).parent)

\* a connection across two trees, followed by the disconnection of the two
\* interfaces, with the parent relation changed by both
C13_Witness ==
    /\ Len(calls) >= 2
    /\ LET i == Len(calls) - 1
       IN /\ IsForestCall(i)
          /\ IsForestCall(i + 1)
          /\ calls[i].op = "connectInterfaces"
          /\ calls[i + 1].op = "disconnectInterfaces"
          /\ calls[i].before.parent # calls[i + 1].before.parent
          /\ calls[i + 1].before.parent # parent
          /\ IsForest(parent)

====
